---- MODULE Spec2Model ----
(***************************************************************************)
(* Model of the weather caching proxy (src/server.js): the Redis client    *)
(* setup, the /health handler and the GET /weather handler, one action per *)
(* stretch of code between two suspension points (await).                  *)
(*                                                                         *)
(* Numbers.  Coordinates are held as integers: a parsed parameter in       *)
(* thousandths of a degree, a rounded coordinate in hundredths.  Inputs    *)
(* are chosen away from rounding ties (x.xx5), where the binary value of   *)
(* coord * 100 may lie on either side of the tie.                          *)
(* Time is in seconds.                                                     *)
(*                                                                         *)
(* Lines 45-54 of src/server.js repeat the statements of lines 29-37       *)
(* outside any try block; the setup modelled here is the well-formed block *)
(* of lines 14-43.                                                         *)
(***************************************************************************)
EXTENDS Integers, Sequences, FiniteSets, TLC

\* ------------------------------------------------------------------ bounds
MaxTime == 600

TickSteps == {300}

\* The number of GET /weather requests that arrive in one run, when they
\* arrive one after the other and when two may be in progress together.
MaxRequests == 3

MaxConcurrentRequests == 2

\* The places of the table of requests in progress.
Requests == {1, 2}

\* --------------------------------------------------------------- constants
CACHE_TTL == 600

\* ------------------------------------------------------------ input domains
\* A query parameter is a string or is missing; what matters of it is what
\* parseFloat makes of it.
Param(k, v) == [k |-> k, v |-> v]

Num(v) == Param("num", v)

\* The queries <<lat, lon>> that arrive: two in one cell, one in another
\* cell, and the invalid ones (out of range, unparseable, both).
Queries ==
  { <<Num(35681), Num(139654)>>, <<Num(35679), Num(139654)>>,
    <<Num(35681), Num(139704)>>,
    <<Num(90001), Num(139654)>>, <<Num(35681), Num(-180001)>>,
    <<Num(-90001), Num(180001)>>,
    <<Param("text", 0), Num(139654)>>, <<Num(90001), Param("missing", 0)>>,
    <<Param("missing", 0), Num(180001)>> }

\* Optional values of the upstream JSON: <<>> is undefined, <<v>> is v.
Undef == <<>>

Some(v) == <<v>>

Hour(t, temp, pp) ==
  [datetime |-> t, temp |-> Some(temp), precipprob |-> pp,
   conditions |-> Some("Clear"), icon |-> Some("clear-day"),
   humidity |-> Some(60), windspeed |-> Some(10)]

Day(d, hours, pp) ==
  [datetime |-> d, hours |-> hours, tempmax |-> Some(20), tempmin |-> Some(10),
   precipprob |-> pp, conditions |-> Some("Clear"), icon |-> Some("clear-day"),
   humidity |-> Some(60), windspeed |-> Some(10)]

Conditions(temp, pp) ==
  [temp |-> Some(temp), feelslike |-> Some(temp), humidity |-> Some(60),
   windspeed |-> Some(10), conditions |-> Some("Clear"),
   icon |-> Some("clear-day"), precipprob |-> pp]

\* The bodies a 2xx upstream answer may carry: a well-formed one and one
\* without the currentConditions block.
RawBodies ==
  { [resolvedAddress |-> Some("Tokyo"), timezone |-> Some("Asia/Tokyo"),
     currentConditions |-> Some(Conditions(18, Undef)),
     days |-> Some(<< Day("d1", Some(<<Hour("h0", 18, Some(10)), Hour("h1", 17, Undef)>>), Some(10)),
                      Day("d2", Undef, Undef) >>)],
    [resolvedAddress |-> Some("Tokyo"), timezone |-> Some("Asia/Tokyo"),
     currentConditions |-> Undef,
     days |-> Undef] }

UpstreamStatuses == {401, 429}

\* The body of a non-2xx answer: an object with a message, or one without.
ErrorPayload(s) ==
  [text |-> "upstream error body",
   message |-> IF s = 429 THEN Some("Too many requests") ELSE Undef]

NoPayload == [text |-> "", message |-> Undef]

NoRaw ==
  [resolvedAddress |-> Undef, timezone |-> Undef, currentConditions |-> Undef,
   days |-> Undef]

\* What axios.get settles with: a 2xx answer, a non-2xx answer (the error
\* carries .response), a timeout (code ECONNABORTED, no .response) or another
\* transport failure (no .response, another code).
Outcome(kind, status, data, payload, code, message) ==
  [kind |-> kind, status |-> status, data |-> data, payload |-> payload,
   code |-> code, message |-> message]

NoOutcome == Outcome("none", 0, NoRaw, NoPayload, "", "")

UpstreamOutcomes ==
  { Outcome("ok", 200, b, NoPayload, "", "") : b \in RawBodies }
  \cup { Outcome("http", s, NoRaw, ErrorPayload(s), "ERR_BAD_REQUEST",
                 "Request failed with status code") : s \in UpstreamStatuses }
  \cup { Outcome("timeout", 0, NoRaw, NoPayload, "ECONNABORTED",
                 "timeout of 10000ms exceeded"),
         Outcome("transport", 0, NoRaw, NoPayload, "ECONNREFUSED",
                 "connect ECONNREFUSED") }

\* ------------------------------------------------------------ pure helpers
\* parseFloat of a query parameter: NaN for a missing or non-numeric one.
Float(k, v) == [k |-> k, v |-> v]

NaN == Float("nan", 0)

parseFloat(p) ==
  CASE p.k = "num" -> Float("num", p.v)
    [] p.k = "inf" -> Float("inf", 0)
    [] OTHER -> NaN

isNaN(x) == x.k = "nan"

\* x < bound and x > bound on parsed values (bound in degrees).
LessThan(x, deg) == x.k = "num" /\ x.v < deg * 1000

GreaterThan(x, deg) == x.k = "inf" \/ (x.k = "num" /\ x.v > deg * 1000)

\* Rounding that always moves up: Math.floor(coord * 100 + 1) / 100.
roundCoordinate_Up(c) == (c + 10) \div 10

\* Math.round(coord * 100) / 100: thousandths in, hundredths out; Math.round
\* takes a tie towards +Infinity.
roundCoordinate(c) == (c + 5) \div 10

Validation(valid, error, latitude, longitude) ==
  [valid |-> valid, error |-> error, latitude |-> latitude,
   longitude |-> longitude]

\* validateCoordinates with the longitude's bounds used for the latitude.
validateCoordinates_LatBounds(lat, lon) ==
  LET latitude == parseFloat(lat)
      longitude == parseFloat(lon)
  IN  IF isNaN(latitude) \/ isNaN(longitude)
        THEN Validation(FALSE, "Invalid coordinates format", NaN, NaN)
      ELSE IF LessThan(latitude, -180) \/ GreaterThan(latitude, 180)
        THEN Validation(FALSE, "Latitude must be between -90 and 90", NaN, NaN)
      ELSE IF LessThan(longitude, -180) \/ GreaterThan(longitude, 180)
        THEN Validation(FALSE, "Longitude must be between -180 and 180", NaN, NaN)
      ELSE Validation(TRUE, "", latitude, longitude)

validateCoordinates(lat, lon) ==
  LET latitude == parseFloat(lat)
      longitude == parseFloat(lon)
  IN  IF isNaN(latitude) \/ isNaN(longitude)
        THEN Validation(FALSE, "Invalid coordinates format", NaN, NaN)
      ELSE IF LessThan(latitude, -90) \/ GreaterThan(latitude, 90)
        THEN Validation(FALSE, "Latitude must be between -90 and 90", NaN, NaN)
      ELSE IF LessThan(longitude, -180) \/ GreaterThan(longitude, 180)
        THEN Validation(FALSE, "Longitude must be between -180 and 180", NaN, NaN)
      ELSE Validation(TRUE, "", latitude, longitude)

\* Number to string, as a template literal does it for a value of h/100:
\* no trailing zeros, no decimal point for a whole number.
NumberToString(h) ==
  LET a == IF h < 0 THEN -h ELSE h
      f == a % 100
  IN  [neg |-> h < 0, int |-> a \div 100,
       frac |-> IF f = 0 THEN <<>>
                ELSE IF f % 10 = 0 THEN <<f \div 10>>
                ELSE <<f \div 10, f % 10>>]

\* `weather:${roundedLat}:${roundedLon}`
CacheKey(roundedLat, roundedLon) ==
  [prefix |-> "weather", lat |-> NumberToString(roundedLat),
   lon |-> NumberToString(roundedLon)]

\* x || 0 on an optional number
OrZero(x) == IF x = Undef \/ x = Some(0) THEN 0 ELSE x[1]

HourlyRecord(day, hour) ==
  [time |-> <<day.datetime, "T", hour.datetime>>, temp |-> hour.temp,
   precipProb |-> OrZero(hour.precipprob), condition |-> hour.conditions,
   icon |-> hour.icon, humidity |-> hour.humidity,
   windSpeed |-> hour.windspeed]

DailyRecord(day) ==
  [date |-> day.datetime, tempMax |-> day.tempmax, tempMin |-> day.tempmin,
   precipProb |-> OrZero(day.precipprob), condition |-> day.conditions,
   icon |-> day.icon, humidity |-> day.humidity, windSpeed |-> day.windspeed]

HourlyLimit == 48

DailyLimit == 7

\* The inner loop over day.hours, from index j, hourly collected so far.
RECURSIVE CollectHours(_, _, _, _)
RECURSIVE CollectDays_StopsAtGap(_, _, _)
CollectHours(day, hours, j, hourly) ==
  IF j > Len(hours) \/ Len(hourly) >= HourlyLimit THEN hourly
  ELSE CollectHours(day, hours, j + 1, Append(hourly, HourlyRecord(day, hours[j])))

\* The outer loop leaving at the first day without hours (break for
\* continue).
CollectDays_StopsAtGap(days, i, hourly) ==
  IF i > Len(days) \/ Len(hourly) >= HourlyLimit THEN hourly
  ELSE IF days[i].hours = Undef THEN hourly
  ELSE CollectDays_StopsAtGap(days, i + 1,
                              CollectHours(days[i], days[i].hours[1], 1, hourly))

\* The outer loop over days, from index i.
RECURSIVE CollectDays(_, _, _)
CollectDays(days, i, hourly) ==
  IF i > Len(days) \/ Len(hourly) >= HourlyLimit THEN hourly
  ELSE IF days[i].hours = Undef THEN CollectDays(days, i + 1, hourly)
  ELSE CollectDays(days, i + 1, CollectHours(days[i], days[i].hours[1], 1, hourly))

Min(a, b) == IF a < b THEN a ELSE b

Snapshot(location, current, hourly, daily, cached, timestamp) ==
  [location |-> location, current |-> current, hourly |-> hourly,
   daily |-> daily, cached |-> cached, timestamp |-> timestamp]

NoCurrent ==
  [temp |-> Undef, feelsLike |-> Undef, humidity |-> Undef, windSpeed |-> Undef,
   condition |-> Undef, icon |-> Undef, precipProb |-> 0]

NoSnapshot ==
  Snapshot([lat |-> 0, lon |-> 0, address |-> Undef, timezone |-> Undef],
           NoCurrent, <<>>, <<>>, FALSE, -1)

\* transformWeatherData throws a TypeError exactly when data.currentConditions
\* is undefined (current.temp is read from it).
TransformThrows(data) == data.currentConditions = Undef

\* The daily list built inside the loop over the hours: it has only the days
\* the loop reached before 48 hours were collected.
transformWeatherData_DailyInLoop(data, lat, lon, cached, time) ==
  LET current == data.currentConditions[1]
      days == IF data.days = Undef THEN <<>> ELSE data.days[1]
      hourly == CollectDays(days, 1, <<>>)
      reached == { i \in 1..Len(days) :
                     Len(CollectDays(SubSeq(days, 1, i - 1), 1, <<>>)) < HourlyLimit }
      daily == [i \in 1..Min(DailyLimit, Cardinality(reached)) |->
                  DailyRecord(days[i])]
  IN  Snapshot([lat |-> roundCoordinate(lat * 10),
                lon |-> roundCoordinate(lon * 10),
                address |-> data.resolvedAddress,
                timezone |-> data.timezone],
               [temp |-> current.temp, feelsLike |-> current.feelslike,
                humidity |-> current.humidity, windSpeed |-> current.windspeed,
                condition |-> current.conditions, icon |-> current.icon,
                precipProb |-> OrZero(current.precipprob)],
               hourly, daily, cached, time)

\* lat and lon are the already rounded values (hundredths); rounding them
\* again multiplies by 100 and rounds to an integer, which leaves them as
\* they are.
transformWeatherData(data, lat, lon, cached, time) ==
  LET current == data.currentConditions[1]
      days == IF data.days = Undef THEN <<>> ELSE data.days[1]
      hourly == CollectDays(days, 1, <<>>)
      daily == [i \in 1..Min(DailyLimit, Len(days)) |-> DailyRecord(days[i])]
  IN  Snapshot([lat |-> roundCoordinate(lat * 10),
                lon |-> roundCoordinate(lon * 10),
                address |-> data.resolvedAddress,
                timezone |-> data.timezone],
               [temp |-> current.temp, feelsLike |-> current.feelslike,
                humidity |-> current.humidity, windSpeed |-> current.windspeed,
                condition |-> current.conditions, icon |-> current.icon,
                precipProb |-> OrZero(current.precipprob)],
               hourly, daily, cached, time)

\* JSON.stringify of a snapshot and JSON.parse of a stored string.  A stored
\* string is either the JSON text of a snapshot or text that is not JSON.
\* stringify drops the properties whose value is undefined; read back, they
\* are undefined again.
JSONstringify(snapshot) == [json |-> TRUE, value |-> snapshot]

Garbage == [json |-> FALSE, value |-> NoSnapshot]

ParseThrows(string) == ~string.json

JSONparse(string) == string.value

\* ------------------------------------------------------------------- state
VARIABLES
  env,             \* process.env: REDIS_URL and VISUAL_CROSSING_API_KEY set or not
  redisClient,     \* "undefined", "client" or "null"
  redisConnected,  \* the connectivity flag
  conn,            \* where the client's connection stands
  lost,            \* the connection has failed, or no store is configured
  store,           \* the key/value store: key -> entry with its expiry time
  now,             \* the clock, in seconds
  req,             \* the GET /weather requests in progress
  answered,        \* the GET /weather request the last step answered, if any
  received,        \* the number of GET /weather requests received so far
  load,            \* what the clients send in this run, fixed at the start
  health           \* the answer of GET /health, if the last step gave one

vars ==
  <<env, redisClient, redisConnected, conn, lost, store, now, req, answered,
    received, load, health>>

ValidQueries == { q \in Queries : validateCoordinates(q[1], q[2]).valid }

\* The cells the valid queries fall into, and their keys.
Cells ==
  { <<roundCoordinate(validateCoordinates(q[1], q[2]).latitude.v),
      roundCoordinate(validateCoordinates(q[1], q[2]).longitude.v)>> :
      q \in ValidQueries }

Keys == { CacheKey(c[1], c[2]) : c \in Cells }

\* An entry of the store: the string, when it was set and when it expires.
Entry(present, string, at, exp) ==
  [present |-> present, string |-> string, at |-> at, exp |-> exp]

NoEntry == Entry(FALSE, Garbage, 0, 0)

\* GET key at the store at time t returns the string of an entry that has
\* not expired.
Live(e, t) == e.present /\ t < e.exp

\* setEx given its TTL in milliseconds where the store counts seconds.
SetEx_Milliseconds(ttl, string, t) ==
  [present |-> TRUE, string |-> string, at |-> t, exp |-> t + ttl * 1000]

\* The value stored by setEx(key, ttl, string) at time t.
SetEx(ttl, string, t) == Entry(TRUE, string, t, t + ttl)

\* An HTTP response written with res.status(..).json(..).
Response(status, error, message, details, data) ==
  [status |-> status, error |-> error, message |-> message,
   details |-> details, data |-> data]

\* res.json(snapshot)
Ok(snapshot) == Response(200, "", "", NoPayload, snapshot)

\* A request: the handler's locals, its position, the responses it wrote,
\* and what it has done and met so far: the calls it made (nGet, nFetch,
\* nSet), how the entry of its key stood when it started and when its lookup
\* was served (atStart, ownAtStart, atGet), what the lookup, the fetch and
\* the write came back with (get, upstream, set), and how the entry of its
\* key stood when its write was served (atSet, ownAtSet).
IdleRequest ==
  [pc |-> "idle", lat |-> Param("missing", 0), lon |-> Param("missing", 0),
   valid |-> FALSE, roundedLat |-> 0, roundedLon |-> 0,
   cacheKey |-> CacheKey(0, 0), weatherData |-> NoSnapshot, resp |-> <<>>,
   nGet |-> 0, nFetch |-> 0, nSet |-> 0,
   atStart |-> "none", ownAtStart |-> FALSE, atGet |-> "none", get |-> "none",
   upstream |-> NoOutcome, set |-> "none",
   atSet |-> "none", ownAtSet |-> FALSE]

\* res.status(..).json(..) / res.json(..) followed by return
Respond(rec, response) ==
  [rec EXCEPT !.pc = "done", !.resp = Append(@, response)]

\* The catch block without the test of error.response: an upstream status is
\* answered as an internal error.
HandleError_NoPassthrough(rec, error) ==
  IF error.code = "ECONNABORTED"
    THEN Respond(rec, Response(504, "Request timeout",
                               "Weather API took too long to respond",
                               NoPayload, NoSnapshot))
  ELSE Respond(rec, Response(500, "Internal server error", error.message,
                             NoPayload, NoSnapshot))

\* The catch block testing for the code ETIMEDOUT, which axios does not give
\* a timeout.
HandleError_WrongCode(rec, error) ==
  IF error.kind = "http"
    THEN Respond(rec, Response(error.status, "Weather API error",
                               IF error.payload.message # Undef
                                 THEN error.payload.message[1] ELSE error.message,
                               error.payload, NoSnapshot))
  ELSE IF error.code = "ETIMEDOUT"
    THEN Respond(rec, Response(504, "Request timeout",
                               "Weather API took too long to respond",
                               NoPayload, NoSnapshot))
  ELSE Respond(rec, Response(500, "Internal server error", error.message,
                             NoPayload, NoSnapshot))

\* The catch block trying the upstream once more after a failure without a
\* response.
HandleError_Retry(rec, error) ==
  IF error.kind = "http"
    THEN Respond(rec, Response(error.status, "Weather API error",
                               IF error.payload.message # Undef
                                 THEN error.payload.message[1] ELSE error.message,
                               error.payload, NoSnapshot))
  ELSE IF rec.nFetch = 1 /\ error.kind \in {"timeout", "transport"}
    THEN [rec EXCEPT !.pc = "fetch", !.nFetch = @ + 1]
  ELSE IF error.code = "ECONNABORTED"
    THEN Respond(rec, Response(504, "Request timeout",
                               "Weather API took too long to respond",
                               NoPayload, NoSnapshot))
  ELSE Respond(rec, Response(500, "Internal server error", error.message,
                             NoPayload, NoSnapshot))

\* A catch block that logs the error and writes no response.
HandleError_Swallowed(rec, error) == [rec EXCEPT !.pc = "done"]

\* Lines 230-253: the catch block of the handler.
HandleError(rec, error) ==
  IF error.kind = "http"
    THEN Respond(rec, Response(error.status, "Weather API error",
                               IF error.payload.message # Undef
                                 THEN error.payload.message[1] ELSE error.message,
                               error.payload, NoSnapshot))
  ELSE IF error.code = "ECONNABORTED"
    THEN Respond(rec, Response(504, "Request timeout",
                               "Weather API took too long to respond",
                               NoPayload, NoSnapshot))
  ELSE Respond(rec, Response(500, "Internal server error", error.message,
                             NoPayload, NoSnapshot))

\* AfterCache without the credential check of lines 196-201.
AfterCache_NoKeyCheck(rec, apiKey) ==
  [rec EXCEPT !.pc = "fetch", !.nFetch = @ + 1]

\* Lines 195-213: the credential check and the start of the upstream fetch.
AfterCache(rec, apiKey) ==
  IF ~apiKey
    THEN Respond(rec, Response(500, "API key not configured",
                               "VISUAL_CROSSING_API_KEY environment variable is missing",
                               NoPayload, NoSnapshot))
  ELSE [rec EXCEPT !.pc = "fetch", !.nFetch = @ + 1]

\* CacheHit without the return of line 187: the handler answers and goes on
\* to the credential check and the fetch.
CacheHit_NoReturn(rec, cached, apiKey, time) ==
  IF ParseThrows(cached)
    THEN AfterCache(rec, apiKey)
  ELSE AfterCache(Respond(rec, Ok([JSONparse(cached) EXCEPT !.cached = TRUE,
                                                            !.timestamp = time])),
                  apiKey)

\* CacheHit with JSON.parse outside the inner try: its SyntaxError reaches the
\* catch block of the handler.
CacheHit_ParseUncaught(rec, cached, apiKey, time) ==
  IF ParseThrows(cached)
    THEN HandleError(rec, Outcome("syntaxerror", 0, NoRaw, NoPayload, "",
                                  "Unexpected token in JSON"))
  ELSE Respond(rec, Ok([JSONparse(cached) EXCEPT !.cached = TRUE,
                                                 !.timestamp = time]))

\* CacheHit without line 186: the snapshot goes out with the time of its
\* fetch.
CacheHit_StaleTimestamp(rec, cached, apiKey, time) ==
  IF ParseThrows(cached)
    THEN AfterCache(rec, apiKey)
  ELSE Respond(rec, Ok([JSONparse(cached) EXCEPT !.cached = TRUE]))

\* Lines 182-188: a truthy value came back from the store.
CacheHit(rec, cached, apiKey, time) ==
  IF ParseThrows(cached)
    THEN AfterCache(rec, apiKey)
  ELSE Respond(rec, Ok([JSONparse(cached) EXCEPT !.cached = TRUE,
                                                 !.timestamp = time]))

\* Lines 178-181: the cache lookup is started if the flag is set; a call on a
\* client that is not there throws inside the try block.
StartLookup(rec, connected, client, apiKey) ==
  IF connected
    THEN IF client = "client"
           THEN [rec EXCEPT !.pc = "get", !.nGet = @ + 1]
         ELSE AfterCache([rec EXCEPT !.get = "error"], apiKey)
  ELSE AfterCache(rec, apiKey)

\* AfterFetch building the snapshot with cached = true.
AfterFetch_CachedFlag(rec, data, connected, client, time) ==
  IF TransformThrows(data)
    THEN HandleError(rec, Outcome("typeerror", 0, NoRaw, NoPayload, "",
                                  "Cannot read properties of undefined"))
  ELSE LET weatherData ==
             transformWeatherData(data, rec.roundedLat, rec.roundedLon, TRUE, time)
       IN  IF connected
             THEN IF client = "client"
                    THEN [rec EXCEPT !.pc = "set", !.nSet = @ + 1,
                                     !.weatherData = weatherData]
                  ELSE Respond([rec EXCEPT !.set = "error",
                                           !.weatherData = weatherData],
                               Ok(weatherData))
           ELSE Respond([rec EXCEPT !.weatherData = weatherData], Ok(weatherData))

\* Lines 216-228, up to the await of setEx.
AfterFetch(rec, data, connected, client, time) ==
  IF TransformThrows(data)
    THEN HandleError(rec, Outcome("typeerror", 0, NoRaw, NoPayload, "",
                                  "Cannot read properties of undefined"))
  ELSE LET weatherData ==
             transformWeatherData(data, rec.roundedLat, rec.roundedLon, FALSE, time)
       IN  IF connected
             THEN IF client = "client"
                    THEN [rec EXCEPT !.pc = "set", !.nSet = @ + 1,
                                     !.weatherData = weatherData]
                  ELSE Respond([rec EXCEPT !.set = "error",
                                           !.weatherData = weatherData],
                               Ok(weatherData))
           ELSE Respond([rec EXCEPT !.weatherData = weatherData], Ok(weatherData))

\* Lines 160-176: validation, rounding and the cache key.
StartRequest(lat, lon) ==
  LET validation == validateCoordinates(lat, lon)
      rec == [IdleRequest EXCEPT !.lat = lat, !.lon = lon]
  IN  IF ~validation.valid
        THEN Respond(rec, Response(400, validation.error,
                                   "Please provide valid lat and lon parameters",
                                   NoPayload, NoSnapshot))
      ELSE LET roundedLat == roundCoordinate(validation.latitude.v)
               roundedLon == roundCoordinate(validation.longitude.v)
           IN  [rec EXCEPT !.valid = TRUE,
                           !.roundedLat = roundedLat,
                           !.roundedLon = roundedLon,
                           !.cacheKey = CacheKey(roundedLat, roundedLon)]

\* The client left to its default strategy, which connects again.
reconnectStrategy_Default == TRUE

\* Line 20: reconnectStrategy.
reconnectStrategy == FALSE

\* How the entry of a key stands at time t: there is none, CACHE_TTL seconds
\* have passed since it was written, or it is within its TTL window (and is
\* a snapshot, or text that is not JSON).
Window(e, t) ==
  IF ~e.present THEN "none"
  ELSE IF t >= e.at + CACHE_TTL THEN "expired"
  ELSE IF e.string.json THEN "in"
  ELSE "garbage"

\* The entry was written by a request of this run.
WrittenHere(e) == e.present /\ e.at >= 0

\* The stores a starting process may find: empty, or holding one entry left
\* by an earlier run 300 seconds before, a snapshot or text that is
\* not JSON.
InitialEntries ==
  { <<CacheKey(c[1], c[2]), Garbage>> : c \in Cells }
  \cup { <<CacheKey(c[1], c[2]),
           JSONstringify(transformWeatherData(b, c[1], c[2], FALSE, -300))>> :
           c \in Cells, b \in { x \in RawBodies : ~TransformThrows(x) } }

InitialStores ==
  { [k \in Keys |-> NoEntry] }
  \cup { [k \in Keys |-> IF k = p[1] THEN SetEx(CACHE_TTL, p[2], -300) ELSE NoEntry] :
           p \in InitialEntries }

\* The runs explored: the requests come one at a time, any of the queries,
\* in any deployment; or up to two requests are in progress together, for
\* one cell, on a fully configured deployment with an empty store.
SameCellQueries == { <<Num(35681), Num(139654)>>, <<Num(35679), Num(139654)>> }

SerialLoad == [slots |-> {1}, queries |-> Queries, requests |-> MaxRequests]

ConcurrentLoad ==
  [slots |-> {1, 2}, queries |-> SameCellQueries,
   requests |-> MaxConcurrentRequests]

\* No answer of GET /health.
NoHealth == [status |-> 0, body |-> "", redis |-> "none"]

Init ==
  /\ \/ /\ load = SerialLoad
        /\ env \in [redisUrl : BOOLEAN, apiKey : BOOLEAN]
        /\ store \in InitialStores
        /\ env.redisUrl = FALSE => store = [k \in Keys |-> NoEntry]
     \/ /\ load = ConcurrentLoad
        /\ env = [redisUrl |-> TRUE, apiKey |-> TRUE]
        /\ store = [k \in Keys |-> NoEntry]
  /\ redisClient = "undefined"
  /\ redisConnected = FALSE
  /\ conn = "boot"
  /\ lost = FALSE
  /\ now = 0
  /\ req = [r \in Requests |-> IdleRequest]
  /\ answered = IdleRequest
  /\ received = 0
  /\ health = NoHealth

\* A step that answers no /weather request and no /health request.
Quiet ==
  /\ answered' = IdleRequest
  /\ health' = NoHealth
  /\ UNCHANGED <<received, load>>

\* ------------------------------------------------- the Redis client's setup
\* Lines 14-43, up to the await of connect().
RedisSetup ==
  /\ conn = "boot"
  /\ IF env.redisUrl
       THEN /\ redisClient' = "client"
            /\ conn' = "connecting"
            /\ UNCHANGED <<redisConnected, lost>>
     ELSE /\ redisConnected' = FALSE
          /\ conn' = "none"
          /\ lost' = TRUE
          /\ UNCHANGED redisClient
  /\ Quiet
  /\ UNCHANGED <<env, store, now, req>>

\* Lines 29-32: the 'connect' event, emitted when the socket is open.
OnConnect ==
  /\ conn = "connecting"
  /\ redisConnected' = TRUE
  /\ conn' = "open"
  /\ Quiet
  /\ UNCHANGED <<env, redisClient, lost, store, now, req>>

\* Line 34: connect() resolves: the client is ready.
ConnectResolved ==
  /\ conn = "open"
  /\ conn' = "ready"
  /\ Quiet
  /\ UNCHANGED <<env, redisClient, redisConnected, lost, store, now, req>>

\* The catch block of the setup without line 37: the flag is left as the
\* 'connect' event set it.
ConnectRejected_FlagLeft ==
  /\ conn \in {"connecting", "open"}
  /\ redisClient' = "null"
  /\ conn' = "failed"
  /\ lost' = TRUE
  /\ Quiet
  /\ UNCHANGED <<env, redisConnected, store, now, req>>

\* Lines 35-39: connect() rejects, before or after the socket opened.
ConnectRejected ==
  /\ conn \in {"connecting", "open"}
  /\ redisConnected' = FALSE
  /\ redisClient' = "null"
  /\ conn' = "failed"
  /\ lost' = TRUE
  /\ Quiet
  /\ UNCHANGED <<env, store, now, req>>

\* Lines 24-27: the 'error' event of a client that was ready; with
\* reconnectStrategy false the client does not connect again.
OnError ==
  /\ conn = "ready"
  /\ redisConnected' = FALSE
  /\ conn' = IF reconnectStrategy THEN "connecting" ELSE "closed"
  /\ lost' = TRUE
  /\ Quiet
  /\ UNCHANGED <<env, redisClient, store, now, req>>

\* ------------------------------------------------------------- GET /health
\* Lines 149-155.
\* A health check that reports the outage with its status.
HealthResponse_Unavailable(connected) ==
  [status |-> IF connected THEN 200 ELSE 503,
   body |-> IF connected THEN "ok" ELSE "error",
   redis |-> IF connected THEN "connected" ELSE "disconnected"]

HealthResponse(connected) ==
  [status |-> 200, body |-> "ok",
   redis |-> IF connected THEN "connected" ELSE "disconnected"]

Health ==
  /\ conn # "boot"
  /\ health' = HealthResponse(redisConnected)
  /\ answered' = IdleRequest
  /\ UNCHANGED <<env, redisClient, redisConnected, conn, lost, store, now, req, received,
                 load>>

\* ------------------------------------------------------------ GET /weather
\* The handler of request r has run to its next await (rec.pc says which) or
\* to its response.
Continue(r, rec) ==
  /\ health' = NoHealth
  /\ IF rec.pc = "done"
       THEN /\ answered' = rec
            /\ req' = [req EXCEPT ![r] = IdleRequest]
     ELSE /\ answered' = IdleRequest
          /\ req' = [req EXCEPT ![r] = rec]

\* A request arrives and runs to its first await or to its response.  (It
\* takes the first free place of req: the places are interchangeable.)
Receive(r, lat, lon) ==
  /\ conn # "boot"
  /\ r \in load.slots
  /\ <<lat, lon>> \in load.queries
  /\ received < load.requests
  /\ req[r].pc = "idle"
  /\ \A o \in Requests : o < r => req[o].pc # "idle"
  /\ received' = received + 1
  /\ LET rec == StartRequest(lat, lon)
     IN  Continue(r, IF rec.pc = "done" THEN rec
                     ELSE StartLookup([rec EXCEPT
                                         !.atStart = Window(store[rec.cacheKey], now),
                                         !.ownAtStart = WrittenHere(store[rec.cacheKey])],
                                      redisConnected, redisClient, env.apiKey))
  /\ UNCHANGED <<env, redisClient, redisConnected, conn, lost, store, now, load>>

\* redisClient.get resolves with what the store holds.
GetResolved(r) ==
  /\ req[r].pc = "get"
  /\ conn = "ready"
  /\ LET e == store[req[r].cacheKey]
         rec == [req[r] EXCEPT !.atGet = Window(e, now),
                               !.get = IF ~Live(e, now) THEN "null"
                                       ELSE IF e.string.json THEN "value"
                                       ELSE "garbage"]
     IN  Continue(r, IF Live(e, now) THEN CacheHit(rec, e.string, env.apiKey, now)
                     ELSE AfterCache(rec, env.apiKey))
  /\ UNCHANGED <<env, redisClient, redisConnected, conn, lost, store, now, received, load>>

\* redisClient.get rejects: lines 190-192.
GetRejected(r) ==
  /\ req[r].pc = "get"
  /\ Continue(r, AfterCache([req[r] EXCEPT !.get = "error"], env.apiKey))
  /\ UNCHANGED <<env, redisClient, redisConnected, conn, lost, store, now, received, load>>

\* axios.get settles.
FetchSettled(r, outcome) ==
  /\ req[r].pc = "fetch"
  /\ LET rec == [req[r] EXCEPT !.upstream = outcome]
     IN  Continue(r, IF outcome.kind = "ok"
                       THEN AfterFetch(rec, outcome.data, redisConnected,
                                       redisClient, now)
                     ELSE HandleError(rec, outcome))
  /\ UNCHANGED <<env, redisClient, redisConnected, conn, lost, store, now, received, load>>

\* A write that leaves an entry that is already there (SET .. NX).
Put_IfAbsent(old, new) == IF old.present THEN old ELSE new

\* What a key holds after setEx: the new entry, whatever it held before.
Put(old, new) == new

\* redisClient.setEx resolves: the entry is in the store; line 228.
SetResolved(r) ==
  /\ req[r].pc = "set"
  /\ conn = "ready"
  /\ store' = [store EXCEPT ![req[r].cacheKey] =
                 Put(@, SetEx(CACHE_TTL, JSONstringify(req[r].weatherData), now))]
  /\ Continue(r, Respond([req[r] EXCEPT
                             !.set = "ok",
                             !.atSet = Window(store[req[r].cacheKey], now),
                             !.ownAtSet = WrittenHere(store[req[r].cacheKey])],
                          Ok(req[r].weatherData)))
  /\ UNCHANGED <<env, redisClient, redisConnected, conn, lost, now, received, load>>

\* redisClient.setEx rejects: lines 223-225, then line 228.
SetRejected(r) ==
  /\ req[r].pc = "set"
  /\ Continue(r, Respond([req[r] EXCEPT !.set = "error"], Ok(req[r].weatherData)))
  /\ UNCHANGED <<env, redisClient, redisConnected, conn, lost, store, now, received, load>>

\* Time passes.
Tick ==
  /\ \E d \in TickSteps :
       /\ now + d <= MaxTime
       /\ now' = now + d
  /\ Quiet
  /\ UNCHANGED <<env, redisClient, redisConnected, conn, lost, store, req>>

Next ==
  \/ RedisSetup
  \/ OnConnect
  \/ ConnectResolved
  \/ ConnectRejected
  \/ OnError
  \/ Health
  \/ \E r \in Requests, q \in Queries : Receive(r, q[1], q[2])
  \/ \E r \in Requests : GetResolved(r)
  \/ \E r \in Requests : GetRejected(r)
  \/ \E r \in Requests, outcome \in UpstreamOutcomes : FetchSettled(r, outcome)
  \/ \E r \in Requests : SetResolved(r)
  \/ \E r \in Requests : SetRejected(r)
  \/ Tick

Spec == Init /\ [][Next]_vars

TypeOK ==
  /\ redisClient \in {"undefined", "client", "null"}
  /\ redisConnected \in BOOLEAN
  /\ conn \in {"boot", "connecting", "open", "ready", "failed", "closed", "none"}
  /\ lost \in BOOLEAN
  /\ now \in 0..MaxTime
  /\ \A r \in Requests : req[r].pc \in {"idle", "get", "fetch", "set"}
  /\ answered.pc \in {"idle", "done"}

\* ------------------------------------------------------------------ claims
Answered == answered.pc = "done"

\* The last step answered a request with valid coordinates.
AnsweredValid == Answered /\ answered.valid

\* The one response of the answered request is res.json(snapshot) with the
\* given value of cached.
AnsweredOk(cached) ==
  /\ Len(answered.resp) = 1
  /\ answered.resp[1].status = 200
  /\ answered.resp[1].data.cached = cached

\* Two valid queries get the same cache key exactly when they round to the
\* same cell.
SameCellSameKey ==
  \A p \in ValidQueries, q \in ValidQueries :
    LET a == StartRequest(p[1], p[2])
        b == StartRequest(q[1], q[2])
    IN  (a.roundedLat = b.roundedLat /\ a.roundedLon = b.roundedLon)
          <=> a.cacheKey = b.cacheKey

\* C1, as claimed: a request that starts within the TTL window of a snapshot
\* that a request of this run wrote under its cell's key, with the cache
\* connected and its lookup not failing, is answered 200 with cached=true and
\* makes no upstream call.
C1_AsClaimed ==
  (AnsweredValid /\ answered.atStart = "in" /\ answered.ownAtStart
     /\ answered.nGet = 1 /\ answered.get # "error")
    => (AnsweredOk(TRUE) /\ answered.nFetch = 0)

\* C1, amended: a request whose cache lookup is served within the TTL window
\* of a snapshot written under its cell's key uses the key of its cell (the
\* same for every coordinate of the cell), is answered once, 200 with
\* cached=true and the location of its cell, and makes no upstream call and
\* no cache write.
C1_ServedFromCache ==
  /\ SameCellSameKey
  /\ (AnsweredValid /\ answered.atGet = "in")
       => /\ AnsweredOk(TRUE)
          /\ answered.cacheKey = CacheKey(answered.roundedLat, answered.roundedLon)
          /\ answered.resp[1].data.location.lat = answered.roundedLat
          /\ answered.resp[1].data.location.lon = answered.roundedLon
          /\ answered.nFetch = 0
          /\ answered.nSet = 0

\* A request for 35.679 is served from the cache, from an entry a request of
\* this run wrote.
C1_Witness ==
  /\ AnsweredValid
  /\ answered.lat = Num(35679)
  /\ answered.atGet = "in"
  /\ answered.ownAtStart
  /\ AnsweredOk(TRUE)

\* C2: when a request starts after CACHE_TTL seconds have passed since a
\* request of this run wrote the entry of its cell, and the entry is not
\* written again before the lookup, the lookup does not return it, and the
\* request makes one upstream call and is not answered with cached=true (it
\* is answered 200 with cached=false when the upstream answers well).
C2_ExpiredEntryRefetched ==
  (AnsweredValid /\ answered.ownAtStart /\ answered.atStart = "expired"
     /\ ((answered.nGet = 1 /\ answered.get # "error") => answered.atGet = "expired"))
    => /\ answered.get \in {"none", "null", "error"}
       /\ answered.nFetch = 1
       /\ Len(answered.resp) = 1
       /\ answered.resp[1].data.cached = FALSE
       /\ (answered.upstream.kind = "ok" /\ ~TransformThrows(answered.upstream.data))
            => AnsweredOk(FALSE)

\* A request finds the entry of its cell expired, fetches and is answered
\* with cached=false.
C2_Witness ==
  /\ AnsweredValid
  /\ answered.ownAtStart
  /\ answered.atStart = "expired"
  /\ answered.get = "null"
  /\ answered.nFetch = 1
  /\ AnsweredOk(FALSE)

LatitudeError == "Latitude must be between -90 and 90"

LongitudeError == "Longitude must be between -180 and 180"

FormatError == "Invalid coordinates format"

\* The parameter is a number outside [-deg, deg].
OutOfRange(p, deg) ==
  LessThan(parseFloat(p), -deg) \/ GreaterThan(parseFloat(p), deg)

NoCall(rec) == rec.nGet = 0 /\ rec.nSet = 0 /\ rec.nFetch = 0

\* C3, as claimed: a request whose latitude or longitude is out of range is
\* answered 400 with the message of an out-of-range parameter, and makes no
\* cache or upstream call.
C3_AsClaimed ==
  (Answered /\ (OutOfRange(answered.lat, 90) \/ OutOfRange(answered.lon, 180)))
    => /\ Len(answered.resp) = 1
       /\ answered.resp[1].status = 400
       /\ \/ OutOfRange(answered.lat, 90) /\ answered.resp[1].error = LatitudeError
          \/ OutOfRange(answered.lon, 180) /\ answered.resp[1].error = LongitudeError
       /\ NoCall(answered)

\* C3, amended: such a request is answered 400 and makes no cache or upstream
\* call; the message is the format error when the other parameter does not
\* parse, else the latitude's when the latitude is out of range, else the
\* longitude's.
C3_OutOfRangeRejected ==
  (Answered /\ (OutOfRange(answered.lat, 90) \/ OutOfRange(answered.lon, 180)))
    => /\ Len(answered.resp) = 1
       /\ answered.resp[1].status = 400
       /\ answered.resp[1].error =
            IF isNaN(parseFloat(answered.lat)) \/ isNaN(parseFloat(answered.lon))
              THEN FormatError
            ELSE IF OutOfRange(answered.lat, 90) THEN LatitudeError
            ELSE LongitudeError
       /\ NoCall(answered)

\* A latitude just above 90 with a valid longitude is turned down.
C3_Witness ==
  /\ Answered
  /\ answered.lat = Num(90001)
  /\ answered.lon = Num(139654)
  /\ answered.resp[1].status = 400
  /\ answered.resp[1].error = LatitudeError

\* The status a request that goes to the upstream ends with, by what the
\* upstream does: 200, the upstream's status, 504 or 500.
StatusFor(outcome) ==
  CASE outcome.kind = "ok" -> IF TransformThrows(outcome.data) THEN 500 ELSE 200
    [] outcome.kind = "http" -> outcome.status
    [] outcome.kind = "timeout" -> 504
    [] OTHER -> 500

CredentialError == "API key not configured"

\* The cache store was unreachable at startup: no URL, or connect() rejected.
DownAtStartup == conn \in {"none", "failed"}

C5_CacheFailuresAbsorbed ==
  /\ (AnsweredValid /\ answered.get \in {"error", "garbage"})
       => /\ Len(answered.resp) = 1
          /\ IF env.apiKey
               THEN /\ answered.nFetch = 1
                    /\ answered.resp[1].status = StatusFor(answered.upstream)
             ELSE /\ answered.nFetch = 0
                  /\ answered.resp[1].status = 500
                  /\ answered.resp[1].error = CredentialError
  /\ (AnsweredValid /\ answered.set = "error")
       => /\ AnsweredOk(FALSE)
          /\ answered.resp[1].data = answered.weatherData
          /\ answered.upstream.kind = "ok"

\* The lookup returned text that is not JSON, the write threw, and the
\* request is answered 200.
C5_Witness ==
  /\ AnsweredValid
  /\ answered.get = "garbage"
  /\ answered.set = "error"
  /\ answered.nSet = 1
  /\ AnsweredOk(FALSE)

C7_UpstreamStatusPassedOn ==
  (Answered /\ answered.upstream.kind = "http")
    => /\ Len(answered.resp) = 1
       /\ answered.resp[1].status = answered.upstream.status
       /\ answered.resp[1].details = answered.upstream.payload
       /\ answered.resp[1].error = "Weather API error"
       /\ answered.nSet = 0
       /\ answered.set = "none"

\* The upstream answered 429 and so does the handler.
C7_Witness ==
  /\ Answered
  /\ answered.upstream.kind = "http"
  /\ answered.upstream.status = 429
  /\ answered.resp[1].status = 429
  /\ answered.resp[1].details = ErrorPayload(429)

\* C8: an upstream timeout is answered 504; another failure without a
\* response is answered 500 with the error's message.
C8_TimeoutAndTransport ==
  /\ (Answered /\ answered.upstream.kind = "timeout")
       => /\ Len(answered.resp) = 1
          /\ answered.resp[1].status = 504
  /\ (Answered /\ answered.upstream.kind = "transport")
       => /\ Len(answered.resp) = 1
          /\ answered.resp[1].status = 500
          /\ answered.resp[1].message = answered.upstream.message

\* The upstream timed out and the handler answered 504.
C8_Witness ==
  /\ Answered
  /\ answered.upstream.kind = "timeout"
  /\ answered.resp[1].status = 504

\* C9: without a credential a request that is not served from the cache is
\* answered 500 with the credential error and makes no upstream call and no
\* cache write; one that is served from the cache is answered 200.
C9_CredentialAfterCache ==
  (AnsweredValid /\ ~env.apiKey)
    => /\ Len(answered.resp) = 1
       /\ answered.nFetch = 0
       /\ answered.nSet = 0
       /\ IF answered.get = "value"
            THEN AnsweredOk(TRUE)
          ELSE /\ answered.resp[1].status = 500
               /\ answered.resp[1].error = CredentialError

\* Without a credential, a request is served from the cache.
C9_Witness ==
  /\ AnsweredValid
  /\ ~env.apiKey
  /\ answered.get = "value"
  /\ AnsweredOk(TRUE)

AtMostOnce(rec) == rec.nGet <= 1 /\ rec.nFetch <= 1 /\ rec.nSet <= 1

\* C10: a request makes at most one upstream fetch, one cache get and one
\* cache set.
C10_NoRetries ==
  /\ AtMostOnce(answered)
  /\ \A r \in Requests : AtMostOnce(req[r])

\* A request has made one call of each kind.
C10_Witness ==
  /\ AnsweredValid
  /\ answered.nGet = 1
  /\ answered.nFetch = 1
  /\ answered.nSet = 1

\* Two requests in progress for one key that both missed.
BothMissed(r, o) ==
  /\ r # o
  /\ req[r].pc # "idle"
  /\ req[o].pc # "idle"
  /\ req[r].cacheKey = req[o].cacheKey
  /\ req[r].get = "null"
  /\ req[o].get = "null"

\* C11: requests are not collapsed.  Two requests in progress for the same
\* key that both found nothing in the cache have each made their own
\* upstream call, neither waiting for the other; and when the write of a
\* request is served the key holds that request's own snapshot, set at that
\* moment for the TTL, whatever an earlier request had written there.
C11_NoCollapsing ==
  /\ \A r \in Requests, o \in Requests :
       BothMissed(r, o) =>
         /\ req[r].pc \in {"fetch", "set"}
         /\ req[r].nFetch = 1
         /\ req[r].pc = "set" =>
              /\ req[r].upstream.kind = "ok"
              /\ req[r].weatherData =
                   transformWeatherData(req[r].upstream.data, req[r].roundedLat,
                                        req[r].roundedLon, FALSE,
                                        req[r].weatherData.timestamp)
  /\ (Answered /\ answered.set = "ok") =>
       /\ answered.nFetch = 1
       /\ store[answered.cacheKey] =
            Entry(TRUE, JSONstringify(answered.weatherData), now, now + CACHE_TTL)

\* Two requests for one cell were in progress together on a cold cache; both
\* missed, both fetched, the first wrote, and the write of the second, with
\* a later snapshot, has just replaced the entry of the first.
C11_Witness ==
  /\ Answered
  /\ load = ConcurrentLoad
  /\ answered.atStart = "none"
  /\ answered.atGet = "none"
  /\ answered.get = "null"
  /\ answered.nFetch = 1
  /\ answered.set = "ok"
  /\ answered.atSet = "in"
  /\ answered.ownAtSet
  /\ store[answered.cacheKey].string = JSONstringify(answered.weatherData)
  /\ store[answered.cacheKey].at = now

\* The last step answered GET /health.
HealthAnswered == health # NoHealth

\* C12: GET /health never fails.  Once the server listens the request can
\* be answered in every state of the connection; the answer is 200 with
\* status "ok" and the value of the connectivity flag; and answering it
\* leaves the store, the connection, the flag and every /weather request as
\* they were.
C12_HealthNeverFails ==
  /\ [](conn # "boot" => ENABLED Health)
  /\ [](HealthAnswered =>
          /\ health.status = 200
          /\ health.body = "ok"
          /\ health.redis \in {"connected", "disconnected"}
          /\ (health.redis = "connected") = redisConnected)
  /\ [][HealthAnswered' =>
          /\ UNCHANGED <<store, req, received, redisClient, redisConnected, conn>>
          /\ answered' = IdleRequest]_vars

\* /health was answered "disconnected" while the client was connecting and a
\* /weather request was waiting for the upstream.
C12_Witness ==
  /\ HealthAnswered
  /\ conn = "connecting"
  /\ health.redis = "disconnected"
  /\ \E r \in Requests : req[r].pc = "fetch"

\* ------------------------------------------------ the transform on its own
\* One request of a deployment without a store, answered by the upstream
\* with bodies of many shapes: up to MaxDays days, each without an hours
\* list or with a list of one of the lengths below, and bodies of a week and
\* more, of full days or of days without hours.
MaxDays == 3

MaxWeek == 8

HourCounts == {0, 1, 2, 24, 25, 47, 49}

\* The hours lists a day may come with: none, or one of these lengths.
HourShapes == {Undef} \cup { Some(n) : n \in HourCounts }

\* Day d with n hours, each with its own readings.
HoursOf(d, n) ==
  [j \in 1..n |-> Hour(j, 100 * d + j, IF j % 2 = 0 THEN Some(j % 7) ELSE Undef)]

DayOf(d, n) ==
  Day(d, IF n = Undef THEN Undef ELSE Some(HoursOf(d, n[1])),
      IF d % 2 = 0 THEN Some(10 * d) ELSE Undef)

DayShapes ==
  UNION { [1..n -> HourShapes] : n \in 0..MaxDays }
  \cup { [i \in 1..n |-> c] : n \in DailyLimit..MaxWeek, c \in {Undef, Some(24)} }

TransformBodies ==
  { [resolvedAddress |-> Some("Tokyo"), timezone |-> Some("Asia/Tokyo"),
     currentConditions |-> Some(Conditions(18, Undef)),
     days |-> Some([i \in 1..Len(shape) |-> DayOf(i, shape[i])])] :
     shape \in DayShapes }
  \cup { [resolvedAddress |-> Some("Tokyo"), timezone |-> Some("Asia/Tokyo"),
          currentConditions |-> Some(Conditions(18, Undef)),
          days |-> Undef] }

TransformOutcomes ==
  { Outcome("ok", 200, b, NoPayload, "", "") : b \in TransformBodies }

TransformLoad ==
  [slots |-> {1}, queries |-> {<<Num(35681), Num(139654)>>}, requests |-> 1]

InitTransform ==
  /\ load = TransformLoad
  /\ env = [redisUrl |-> FALSE, apiKey |-> TRUE]
  /\ store = [k \in Keys |-> NoEntry]
  /\ redisClient = "undefined"
  /\ redisConnected = FALSE
  /\ conn = "boot"
  /\ lost = FALSE
  /\ now = 0
  /\ req = [r \in Requests |-> IdleRequest]
  /\ answered = IdleRequest
  /\ received = 0
  /\ health = NoHealth

NextTransform ==
  \/ RedisSetup
  \/ \E r \in Requests, q \in TransformLoad.queries : Receive(r, q[1], q[2])
  \/ \E r \in Requests, outcome \in TransformOutcomes : FetchSettled(r, outcome)

SpecTransform == InitTransform /\ [][NextTransform]_vars

\* The days of an upstream body.
DaysOf(data) == IF data.days = Undef THEN <<>> ELSE data.days[1]

\* The hours of all the days from day i on, in day-then-hour order; a day
\* without an hours list has none.
RECURSIVE AllHours(_, _)
AllHours(days, i) ==
  IF i > Len(days) THEN <<>>
  ELSE (IF days[i].hours = Undef THEN <<>>
        ELSE [j \in 1..Len(days[i].hours[1]) |->
                HourlyRecord(days[i], days[i].hours[1][j])])
       \o AllHours(days, i + 1)

\* The last step answered a request with the snapshot made of an upstream
\* body.
Transformed ==
  /\ Answered
  /\ answered.upstream.kind = "ok"
  /\ ~TransformThrows(answered.upstream.data)
  /\ Len(answered.resp) = 1
  /\ answered.resp[1].status = 200
  /\ answered.resp[1].data = answered.weatherData

\* C13: the hourly list of a snapshot is the first min(48, N) of the N
\* hours of the upstream body, taken in day-then-hour order, days without an
\* hours list giving none.
C13_HourlyFirst48 ==
  Transformed =>
    LET all == AllHours(DaysOf(answered.upstream.data), 1)
    IN  /\ Len(answered.weatherData.hourly) = Min(48, Len(all))
        /\ answered.weatherData.hourly = SubSeq(all, 1, Min(48, Len(all)))

\* A body of 24 hours, a day without hours and 25 hours: 49 hours, of which
\* the snapshot has the first 48, the last being hour 24 of the third day.
C13_Witness ==
  /\ Transformed
  /\ LET days == DaysOf(answered.upstream.data)
     IN  /\ Len(days) = 3
         /\ days[2].hours = Undef
         /\ Len(AllHours(days, 1)) = 49
         /\ Len(answered.weatherData.hourly) = 48
         /\ answered.weatherData.hourly[48].time = <<3, "T", 24>>

\* C14: the daily list of a snapshot has the first min(7, D) of the D days
\* of the upstream body, in their order, one record for each, however many
\* hours the hourly list took.
C14_DailyFirst7 ==
  Transformed =>
    LET days == DaysOf(answered.upstream.data)
        daily == answered.weatherData.daily
    IN  /\ Len(daily) = Min(7, Len(days))
        /\ \A i \in 1..Len(daily) :
             /\ daily[i].date = days[i].datetime
             /\ daily[i].tempMax = days[i].tempmax
             /\ daily[i].tempMin = days[i].tempmin
             /\ daily[i].precipProb = OrZero(days[i].precipprob)
             /\ daily[i].condition = days[i].conditions
             /\ daily[i].icon = days[i].icon
             /\ daily[i].humidity = days[i].humidity
             /\ daily[i].windSpeed = days[i].windspeed

\* A body of 8 days of 24 hours: the hourly list stops in the second day and
\* the daily list has the first 7 days.
C14_Witness ==
  /\ Transformed
  /\ Len(DaysOf(answered.upstream.data)) = 8
  /\ Len(answered.weatherData.hourly) = 48
  /\ Len(answered.weatherData.daily) = 7
  /\ answered.weatherData.daily[7].date = 7
  /\ answered.weatherData.daily[2].precipProb = 20

\* ---------------------------------------------- the coordinates on their own
\* Requests of a deployment without a store, one at a time, with latitudes
\* and longitudes over the whole range (in thousandths of a degree): the
\* bounds, values on both sides of zero, values that round up and down,
\* values whose rounded form ends in zero or is whole; and parameters that
\* are missing, not numeric or infinite.
MaxCoordinateRequests == 2

CoordinateLats ==
  {-90000, -35679, -4, 0, 10000, 10004, 35679, 35681, 35704, 89996, 90000}

CoordinateLons ==
  {-180000, -139654, -4, 0, 10000, 139654, 139704, 179996, 180000}

Unparsed == { Param("missing", 0), Param("text", 0), Param("inf", 0) }

CoordinateQueries ==
  { <<Num(a), Num(o)>> : a \in CoordinateLats, o \in CoordinateLons }
  \cup { <<p, Num(o)>> : p \in Unparsed, o \in {139654, 180001} }
  \cup { <<Num(a), p>> : p \in Unparsed, a \in {35681, 90001} }
  \cup { <<p, q>> : p \in Unparsed, q \in Unparsed }

CoordinateKeys ==
  { StartRequest(q[1], q[2]).cacheKey :
      q \in { x \in CoordinateQueries : validateCoordinates(x[1], x[2]).valid } }

CoordinateLoad ==
  [slots |-> {1}, queries |-> CoordinateQueries,
   requests |-> MaxCoordinateRequests]

InitCoordinates ==
  /\ load = CoordinateLoad
  /\ env = [redisUrl |-> FALSE, apiKey |-> TRUE]
  /\ store = [k \in CoordinateKeys |-> NoEntry]
  /\ redisClient = "undefined"
  /\ redisConnected = FALSE
  /\ conn = "boot"
  /\ lost = FALSE
  /\ now = 0
  /\ req = [r \in Requests |-> IdleRequest]
  /\ answered = IdleRequest
  /\ received = 0
  /\ health = NoHealth

NextCoordinates ==
  \/ RedisSetup
  \/ \E r \in Requests, q \in CoordinateQueries : Receive(r, q[1], q[2])
  \/ \E r \in Requests, outcome \in UpstreamOutcomes : FetchSettled(r, outcome)

SpecCoordinates == InitCoordinates /\ [][NextCoordinates]_vars

\* The request a client sends with the rounded coordinates of rec, written
\* with 2 decimals.
Resent(rec) == StartRequest(Num(rec.roundedLat * 10), Num(rec.roundedLon * 10))

\* C15: rounding is idempotent.  For every request with valid coordinates,
\* in progress or answered, rounding its rounded latitude and longitude
\* again leaves them as they are; a request for the rounded coordinates is
\* valid and has the same rounded coordinates and the same cache key; and
\* the location of the snapshot, which transformWeatherData rounds again, is
\* that of the key.
C15_RoundingIdempotent ==
  \A rec \in {answered} \cup { req[r] : r \in Requests } :
    rec.valid =>
      /\ roundCoordinate(rec.roundedLat * 10) = rec.roundedLat
      /\ roundCoordinate(rec.roundedLon * 10) = rec.roundedLon
      /\ Resent(rec).valid
      /\ Resent(rec).roundedLat = rec.roundedLat
      /\ Resent(rec).roundedLon = rec.roundedLon
      /\ Resent(rec).cacheKey = rec.cacheKey
      /\ (rec.pc = "done" /\ rec.upstream.kind = "ok"
          /\ ~TransformThrows(rec.upstream.data)) =>
           /\ rec.weatherData.location.lat = rec.roundedLat
           /\ rec.weatherData.location.lon = rec.roundedLon
           /\ CacheKey(rec.weatherData.location.lat,
                       rec.weatherData.location.lon) = rec.cacheKey

\* A request for (-35.679, 139.704), rounded to (-35.68, 139.70), was
\* answered with a snapshot of that location.
C15_Witness ==
  /\ Transformed
  /\ answered.lat = Num(-35679)
  /\ answered.lon = Num(139704)
  /\ answered.roundedLat = -3568
  /\ answered.roundedLon = 13970
  /\ answered.weatherData.location.lat = -3568
  /\ answered.weatherData.location.lon = 13970

\* A value of h/100 written with exactly 2 decimals.
ToFixed2(h) ==
  LET a == IF h < 0 THEN -h ELSE h
  IN  [neg |-> h < 0, int |-> a \div 100, frac |-> <<(a % 100) \div 10, a % 10>>]

\* C16: the cache key of every request with valid coordinates is
\* weather:{lat}:{lon} with the rounded latitude and the rounded longitude
\* each written with exactly 2 decimals.
C16_AsClaimed ==
  \A rec \in {answered} \cup { req[r] : r \in Requests } :
    rec.valid =>
      rec.cacheKey = [prefix |-> "weather", lat |-> ToFixed2(rec.roundedLat),
                      lon |-> ToFixed2(rec.roundedLon)]

\* A request for (10.004, 139.704), rounded to (10.00, 139.70), has the key
\* weather:10:139.7.
C16_Witness ==
  /\ AnsweredValid
  /\ answered.lat = Num(10004)
  /\ answered.lon = Num(139704)
  /\ answered.roundedLat = 1000
  /\ answered.roundedLon = 13970
  /\ answered.cacheKey.lat = [neg |-> FALSE, int |-> 10, frac |-> <<>>]
  /\ answered.cacheKey.lon = [neg |-> FALSE, int |-> 139, frac |-> <<7>>]

\* The parameter does not parse to a finite number: it is missing, is not
\* numeric, or parses to Infinity.
NotFinite(p) == p.k # "num"

\* C17: a request of which either parameter does not parse to a finite
\* number is answered 400 'Invalid coordinates format', whatever the other
\* parameter, in or out of range, and makes no call.
C17_AsClaimed ==
  (Answered /\ (NotFinite(answered.lat) \/ NotFinite(answered.lon))) =>
    /\ Len(answered.resp) = 1
    /\ answered.resp[1].status = 400
    /\ answered.resp[1].error = FormatError
    /\ NoCall(answered)

\* lat=Infinity with a longitude in range was answered 400 with the
\* latitude's range message.
C17_Witness ==
  /\ Answered
  /\ answered.lat = Param("inf", 0)
  /\ answered.lon = Num(139654)
  /\ Len(answered.resp) = 1
  /\ answered.resp[1].status = 400
  /\ answered.resp[1].error = LatitudeError

\* C18: the body of a cache hit is the snapshot the key holds, with cached
\* true and the timestamp of the answer: its location, current, hourly and
\* daily are those stored.  The request makes no fetch and no write, the
\* entry still is the snapshot as it was written (cached false, the
\* timestamp of its fetch, its expiry), and the step that serves a lookup
\* leaves the store as it is.
C18_HitReturnsStored ==
  /\ []((Answered /\ answered.get = "value") =>
          LET entry == store[answered.cacheKey]
              stored == JSONparse(entry.string)
              body == answered.resp[1].data
          IN  /\ Len(answered.resp) = 1
              /\ answered.resp[1].status = 200
              /\ body.location = stored.location
              /\ body.current = stored.current
              /\ body.hourly = stored.hourly
              /\ body.daily = stored.daily
              /\ body.cached = TRUE
              /\ body.timestamp = now
              /\ answered.nFetch = 0
              /\ answered.nSet = 0
              /\ Live(entry, now)
              /\ ~ParseThrows(entry.string)
              /\ stored.cached = FALSE
              /\ stored.timestamp <= entry.at
              /\ entry.exp = entry.at + CACHE_TTL)
  /\ [][(\E r \in Requests : req[r].pc = "get" /\ req'[r].pc # "get")
          => store' = store]_vars

\* A request was served from an entry that a request of this run wrote 300
\* seconds before: the body has the hours and days of the stored snapshot,
\* cached true and the time of the answer, and the entry is as written.
C18_Witness ==
  /\ Answered
  /\ answered.get = "value"
  /\ answered.ownAtStart
  /\ now = 600
  /\ store[answered.cacheKey].at = 300
  /\ JSONparse(store[answered.cacheKey].string).timestamp = 300
  /\ answered.resp[1].data.timestamp = 600
  /\ answered.resp[1].data.cached
  /\ Len(answered.resp[1].data.hourly) = 2
  /\ Len(answered.resp[1].data.daily) = 2

\* ------------------------------------------------------- pending operations
\* Every operation a handler awaits settles: axios.get within its timeout of
\* 10 seconds (line 213), and a command of the Redis client with the reply
\* of the store or, the connection lost, with an error.
Settles(r) ==
  /\ WF_vars(GetResolved(r) \/ GetRejected(r))
  /\ WF_vars(\E outcome \in UpstreamOutcomes : FetchSettled(r, outcome))
  /\ WF_vars(SetResolved(r) \/ SetRejected(r))

SpecFair == Spec /\ \A r \in Requests : Settles(r)

OwnKey(rec) ==
  CacheKey(roundCoordinate(parseFloat(rec.lat).v),
           roundCoordinate(parseFloat(rec.lon).v))

\* C20: the store changes only by the write of a request whose fetch was
\* answered 2xx and whose transform gave a snapshot: the entry of that
\* request's own key becomes that snapshot, with cached false, and no other
\* entry changes or goes away; every entry written is such a snapshot of the
\* cell of its key; and a request answered with anything but 200 has issued
\* no write.
C20_WritesOnlyAfterSuccess ==
  /\ [][store' # store =>
          \E r \in Requests :
            /\ req[r].pc = "set"
            /\ req[r].valid
            /\ req[r].upstream.kind = "ok"
            /\ ~TransformThrows(req[r].upstream.data)
            /\ req[r].cacheKey = OwnKey(req[r])
            /\ req[r].weatherData.cached = FALSE
            /\ \A k \in DOMAIN store :
                 store'[k] = IF k = req[r].cacheKey
                               THEN Entry(TRUE, JSONstringify(req[r].weatherData),
                                          now, now + CACHE_TTL)
                             ELSE store[k]
            /\ answered'.lat = req[r].lat
            /\ answered'.lon = req[r].lon
            /\ answered'.resp[1].status = 200]_vars
  /\ [](\A k \in DOMAIN store :
          WrittenHere(store[k]) =>
            /\ ~ParseThrows(store[k].string)
            /\ JSONparse(store[k].string).cached = FALSE
            /\ CacheKey(JSONparse(store[k].string).location.lat,
                        JSONparse(store[k].string).location.lon) = k)
  /\ []((Answered /\ answered.resp[1].status # 200) =>
          /\ answered.nSet = 0
          /\ answered.set = "none")

\* A request found the entry of its key expired, fetched, and its write was
\* served: the key holds its snapshot with cached false.
C20_Witness ==
  /\ AnsweredValid
  /\ answered.atGet = "expired"
  /\ answered.upstream.kind = "ok"
  /\ answered.set = "ok"
  /\ answered.resp[1].status = 200
  /\ answered.cacheKey = OwnKey(answered)
  /\ store[answered.cacheKey].at = now
  /\ JSONparse(store[answered.cacheKey].string).cached = FALSE

====
